---- MODULE Spec2Model ----
(***************************************************************************)
(* Titanic: a terminal application that compares directory pairs by        *)
(* content hash (package diff) and repairs differences with rsync under a  *)
(* Bubble Tea event loop (model.go).                                       *)
(*                                                                         *)
(* Two specifications share this module:                                   *)
(*   SpecDiff  applies the pure function ComputeDiff to bounded            *)
(*             inventories;                                                *)
(*   Spec      is the session: Model.Update driven by key presses and by   *)
(*             the messages of the commands it has issued, next to the     *)
(*             file trees those commands read and write.                   *)
(***************************************************************************)
EXTENDS Integers, Sequences, FiniteSets, TLC

(***************************************************************************)
(* Bounds of the model.                                                    *)
(***************************************************************************)
\* longest inventory handed to ComputeDiff in SpecDiff
MaxInv == 3
\* largest number of configured directory pairs
MaxPairs == 2
\* sync commands of one kind (syncStartCmd, syncFileCmd) outstanding at one time
MaxInFlight == 2
\* outside events of a run: 's' and 'r' key presses and changes of source files
MaxEvents == 2
\* largest number of pairs in SpecTab, the session driven by "tab" alone
MaxTabPairs == 14
\* longest remote listing, in lines, handed to ListRemote in SpecList
MaxLines == 2

(***************************************************************************)
(* Paths are Go strings: sequences of bytes.  sort.Strings orders them     *)
(* bytewise, a proper prefix before its extensions.                        *)
(***************************************************************************)
PathA == <<1>>
PathAB == <<1, 2>>
PathB == <<2>>
PathBA == <<2, 1>>

\* the paths inventories of SpecDiff draw from
DiffPaths == {PathA, PathAB, PathB, PathBA}
\* the paths a tree of the session holds
TreePaths == {PathA, PathB}
\* content digests (hex strings in the program); never empty for a file
Hashes == {"h1", "h2"}
\* Go's zero string: the hash field of a record whose side has no file
NoHash == ""
\* a tree maps a path to this when no file is there
NoFile == "absent"

Min(a, b) == IF a < b THEN a ELSE b

\* s < t for Go strings
StrLess(s, t) ==
    \E k \in 1..(Min(Len(s), Len(t)) + 1) :
        /\ \A j \in 1..(k - 1) : s[j] = t[j]
        /\ \/ k > Len(s) /\ k <= Len(t)
           \/ k <= Len(s) /\ k <= Len(t) /\ s[k] < t[k]

\* the keys in an order that puts shorter strings first
RECURSIVE SortByLength(_)
SortByLength(S) ==
    IF S = {} THEN << >>
    ELSE LET m == CHOOSE x \in S : \A y \in S \ {x} :
                      \/ Len(x) < Len(y)
                      \/ Len(x) = Len(y) /\ StrLess(x, y)
         IN  <<m>> \o SortByLength(S \ {m})

\* sort.Strings over the keys of a map: the ascending sequence of the set
RECURSIVE SortStrings(_)
SortStrings(S) ==
    IF S = {} THEN << >>
    ELSE LET m == CHOOSE x \in S : \A y \in S \ {x} : StrLess(x, y)
         IN  <<m>> \o SortStrings(S \ {m})

(***************************************************************************)
(* package diff                                                            *)
(***************************************************************************)
Match == "Match"
MissingSource == "MissingSource"
MissingDestination == "MissingDestination"
Mismatch == "Mismatch"
DiffStatus == {Match, MissingSource, MissingDestination, Mismatch}

FileHash == [Path : DiffPaths, Hash : Hashes]

\* the map a loop "m[fh.Path] = fh.Hash" over list builds: later entries win
MapOf(list) ==
    [p \in {list[i].Path : i \in 1..Len(list)} |->
        LET last == CHOOSE i \in 1..Len(list) :
                        /\ list[i].Path = p
                        /\ \A j \in (i + 1)..Len(list) : list[j].Path # p
        IN  list[last].Hash]

\* v, ok := m[path]: the zero string when the key is absent
Lookup(m, path) == IF path \in DOMAIN m THEN m[path] ELSE NoHash

\* a switch that tests the hashes before the presence of the destination
ClassifyHashFirst(sOk, dOk, sHash, dHash) ==
    IF ~sOk THEN MissingSource
    ELSE IF sHash # dHash THEN Mismatch
    ELSE IF ~dOk THEN MissingDestination
    ELSE Match

\* a switch with the comparison of the hashes inverted
ClassifyInverted(sOk, dOk, sHash, dHash) ==
    IF ~sOk THEN MissingSource
    ELSE IF ~dOk THEN MissingDestination
    ELSE IF sHash = dHash THEN Mismatch
    ELSE Match

\* the switch of ComputeDiff
Classify(sOk, dOk, sHash, dHash) ==
    IF ~sOk THEN MissingSource
    ELSE IF ~dOk THEN MissingDestination
    ELSE IF sHash # dHash THEN Mismatch
    ELSE Match

\* the paths of a list in order of first appearance
RECURSIVE FirstSeen(_)
FirstSeen(list) ==
    IF list = << >> THEN << >>
    ELSE LET front == FirstSeen(SubSeq(list, 1, Len(list) - 1))
             p     == list[Len(list)].Path
         IN  IF \E i \in 1..Len(front) : front[i] = p THEN front
             ELSE Append(front, p)

\* a diff without the sort: records in the order the lists give the paths
ComputeDiffUnsorted(srcList, dstList) ==
    LET srcMap == MapOf(srcList)
        dstMap == MapOf(dstList)
        paths  == FirstSeen(srcList \o dstList)
    IN  [i \in 1..Len(paths) |->
            LET path  == paths[i]
                sHash == Lookup(srcMap, path)
                dHash == Lookup(dstMap, path)
            IN  [Path    |-> path,
                 SrcHash |-> sHash,
                 DstHash |-> dHash,
                 Status  |-> Classify(path \in DOMAIN srcMap,
                                      path \in DOMAIN dstMap, sHash, dHash)]]

ComputeDiff(srcList, dstList) ==
    LET srcMap == MapOf(srcList)
        dstMap == MapOf(dstList)
        paths  == SortStrings(DOMAIN srcMap \cup DOMAIN dstMap)
    IN  [i \in 1..Len(paths) |->
            LET path  == paths[i]
                sHash == Lookup(srcMap, path)
                dHash == Lookup(dstMap, path)
            IN  [Path    |-> path,
                 SrcHash |-> sHash,
                 DstHash |-> dHash,
                 Status  |-> Classify(path \in DOMAIN srcMap,
                                      path \in DOMAIN dstMap, sHash, dHash)]]

(***************************************************************************)
(* State.  Pairs, Index, Diffs, Loading and Syncing are the fields of      *)
(* Model; Index and the msg.Index fields are 0-based as in the program,    *)
(* sequences are 1-based, so pair i is Pairs[i + 1].                       *)
(***************************************************************************)
VARIABLES
    status,     \* "running", "quit" (tea.Quit) or "panic" (index out of range)
    Pairs,      \* Model.Pairs: the configured pairs, <<1, ..., n>>
    Index,      \* Model.Index
    Diffs,      \* Model.Diffs: one list of Diff per pair (nil is << >>)
    Loading,    \* Model.Loading
    Syncing,    \* Model.Syncing: the keys of the map
    srcFS,      \* srcFS[i]: the tree at Pairs[i].Source, path -> hash or NoFile
    dstFS,      \* dstFS[i]: the tree at Pairs[i].Destination
    startCmds,  \* syncStartCmd commands issued, message not yet processed
    fileCmds,   \* syncFileCmd commands issued, message not yet processed
    diffCmds,   \* computeDiffsCmd commands issued, message not yet processed
    lastMsg,    \* the message the step just taken handed to Update, if any
    nEvents,    \* outside events so far ('s', 'r', changes of source files)
    call        \* SpecDiff, SpecList: the arguments and the result of a call
                \* of ComputeDiff, ListLocal or ListRemote

modelVars == <<Pairs, Index, Diffs, Loading, Syncing>>
cmdVars == <<startCmds, fileCmds, diffCmds>>
fsVars == <<srcFS, dstFS>>
vars == <<status, Pairs, Index, Diffs, Loading, Syncing, srcFS, dstFS,
          startCmds, fileCmds, diffCmds, lastMsg, nEvents, call>>

Trees == [TreePaths -> Hashes \cup {NoFile}]

\* the inventory of a readable tree, in filepath.WalkDir's lexical order
ListLocal(tree) ==
    LET paths == SortStrings({p \in TreePaths : tree[p] # NoFile})
    IN  [i \in 1..Len(paths) |-> [Path |-> paths[i], Hash |-> tree[paths[i]]]]

\* the model's sources are local trees
getFileHashes(tree) == ListLocal(tree)

\* a recomputation that one failing inventory aborts for every pair
computeAllDiffsAbort(pairs, sfs, dfs, srcErr, dstErr) ==
    [i \in 1..Len(pairs) |->
        IF srcErr # {} \/ dstErr # {}
        THEN << >>
        ELSE ComputeDiff(ListLocal(sfs[i]), ListLocal(dfs[i]))]

\* srcErr, dstErr: the pairs whose source, destination inventory fails
computeAllDiffs(pairs, sfs, dfs, srcErr, dstErr) ==
    [i \in 1..Len(pairs) |->
        IF i \in srcErr \/ i \in dstErr
        THEN << >>
        ELSE ComputeDiff(getFileHashes(sfs[i]), ListLocal(dfs[i]))]

\* the loop of syncFileCmd over the fresh source inventory
FreshHash(src, path) ==
    IF \E k \in 1..Len(src) : src[k].Path = path
    THEN src[CHOOSE k \in 1..Len(src) :
                 /\ src[k].Path = path
                 /\ \A j \in 1..(k - 1) : src[j].Path # path].Hash
    ELSE NoHash

(***************************************************************************)
(* Messages.                                                               *)
(***************************************************************************)
NoMsg == [kind |-> "none", key |-> "", Index |-> 0, Path |-> << >>,
          Err |-> FALSE, SrcHash |-> NoHash, rid |-> 0, diffs |-> << >>]
KeyMsg(k) == [NoMsg EXCEPT !.kind = "key", !.key = k]
diffsMsg(c) == [NoMsg EXCEPT !.kind = "diffsMsg", !.rid = c.rid, !.diffs = c.diffs]
syncStartMsg(c) ==
    [NoMsg EXCEPT !.kind = "syncStartMsg", !.Index = c.Index, !.Path = c.Path,
                  !.rid = c.rid]
syncDoneMsg(c) ==
    [NoMsg EXCEPT !.kind = "syncDoneMsg", !.Index = c.Index, !.Path = c.Path,
                  !.Err = c.Err, !.SrcHash = c.SrcHash, !.rid = c.rid]

\* an id no outstanding sync command carries
FreshRid == CHOOSE r \in 1..(2 * MaxInFlight + 1) :
                /\ \A c \in startCmds \cup fileCmds : c.rid # r
                /\ \A q \in 1..(r - 1) : \E c \in startCmds \cup fileCmds : c.rid = q

(***************************************************************************)
(* Initial states.  The trees of a pair start as one of these scenarios    *)
(* (the first two are the cases of TestComputeDiff), readable at startup.  *)
(***************************************************************************)
Tree(a, b) == [p \in TreePaths |-> IF p = PathA THEN a ELSE b]
InitTrees ==
    << [src |-> Tree("h1", "h2"), dst |-> Tree("h1", NoFile)],
       [src |-> Tree("h1", NoFile), dst |-> Tree("h2", "h1")],
       [src |-> Tree("h1", "h1"), dst |-> Tree("h2", "h2")] >>

\* pair i starts as scenario i, counted from scenario k
InitTree(i, k) == InitTrees[((i + k) % Len(InitTrees)) + 1]

NoCall == [src |-> << >>, dst |-> << >>, out |-> << >>, done |-> FALSE]

\* NewModel
Init ==
    /\ status = "running"
    /\ \E n \in 0..MaxPairs :
         /\ Pairs = [i \in 1..n |-> i]
         /\ \E k \in 1..Len(InitTrees) :
              /\ srcFS = [i \in 1..n |-> InitTree(i, k).src]
              /\ dstFS = [i \in 1..n |-> InitTree(i, k).dst]
         /\ Diffs = computeAllDiffs(Pairs, srcFS, dstFS, {}, {})
    /\ Index = 0
    /\ Loading = FALSE
    /\ Syncing = {}
    /\ startCmds = {}
    /\ fileCmds = {}
    /\ diffCmds = {}
    /\ lastMsg = NoMsg
    /\ nEvents = 0
    /\ call = NoCall

(***************************************************************************)
(* Model.Update: one action per message type and key.  The event loop      *)
(* hands Update one message at a time.                                     *)
(***************************************************************************)
Running == status = "running"

\* a handler of diffsMsg that leaves the loading flag set
UpdateDiffsKeepLoading(c) ==
    /\ Running
    /\ c \in diffCmds /\ c.pc = "send"
    /\ Diffs' = c.diffs
    /\ diffCmds' = diffCmds \ {c}
    /\ lastMsg' = diffsMsg(c)
    /\ UNCHANGED <<status, Pairs, Index, Loading, Syncing, srcFS, dstFS, startCmds,
                   fileCmds, nEvents, call>>

\* case diffsMsg
UpdateDiffs(c) ==
    /\ Running
    /\ c \in diffCmds /\ c.pc = "send"
    /\ Diffs' = c.diffs
    /\ Loading' = FALSE
    /\ diffCmds' = diffCmds \ {c}
    /\ lastMsg' = diffsMsg(c)
    /\ UNCHANGED <<status, Pairs, Index, Syncing, srcFS, dstFS, startCmds,
                   fileCmds, nEvents, call>>

\* case syncStartMsg
UpdateSyncStart(c) ==
    /\ Running
    /\ c \in startCmds
    /\ Syncing' = IF c.Index = Index THEN Syncing \cup {c.Path} ELSE Syncing
    /\ startCmds' = startCmds \ {c}
    /\ lastMsg' = syncStartMsg(c)
    /\ UNCHANGED <<status, Pairs, Index, Diffs, Loading, srcFS, dstFS,
                   fileCmds, diffCmds, nEvents, call>>

\* the record the loop of case syncDoneMsg patches: the first with the path
PatchIndex(list, path) ==
    CHOOSE i \in 1..Len(list) :
        /\ list[i].Path = path
        /\ \A j \in 1..(i - 1) : list[j].Path # path

\* m.Diffs[msg.Index][i].DstHash = msg.SrcHash; ....Status = diff.Match
PatchRecord(d, msg) == [d EXCEPT !.DstHash = msg.SrcHash, !.Status = Match]

\* a patch that takes the record out of the list
PatchListRemove(list, msg) == SelectSeq(list, LAMBDA d : d.Path # msg.Path)

\* a patch that writes every record of the list
PatchListAll(list, msg) == [i \in 1..Len(list) |-> PatchRecord(list[i], msg)]

PatchList(list, msg) ==
    IF \E i \in 1..Len(list) : list[i].Path = msg.Path
    THEN LET i == PatchIndex(list, msg.Path)
         IN  [list EXCEPT ![i] = PatchRecord(list[i], msg)]
    ELSE list

\* a handler that applies a sync message whatever pair is selected
ForAnyPair(msg, index) == TRUE

\* the guard "msg.Index == m.Index" of the sync messages
ForCurrentPair(msg, index) == msg.Index = index

\* a handler that patches the record whether or not the repair failed
ShouldPatchAlways(msg) == TRUE

\* the guard "msg.Err == nil" of the patch
ShouldPatch(msg) == ~msg.Err

\* a handler of syncDoneMsg that starts a failed repair again by itself
UpdateSyncDoneRetry(c) ==
    /\ Running
    /\ c \in fileCmds /\ c.pc = "send"
    /\ IF ForCurrentPair(c, Index)
       THEN /\ Syncing' = Syncing \ {c.Path}
            /\ Diffs' = IF ShouldPatch(c)
                        THEN [Diffs EXCEPT ![c.Index + 1] = PatchList(@, c)]
                        ELSE Diffs
       ELSE UNCHANGED <<Syncing, Diffs>>
    /\ fileCmds' = IF c.Err THEN (fileCmds \ {c}) \cup {[c EXCEPT !.pc = "run"]}
                   ELSE fileCmds \ {c}
    /\ lastMsg' = syncDoneMsg(c)
    /\ UNCHANGED <<status, Pairs, Index, Loading, srcFS, dstFS, startCmds,
                   diffCmds, nEvents, call>>

\* case syncDoneMsg
UpdateSyncDone(c) ==
    /\ Running
    /\ c \in fileCmds /\ c.pc = "send"
    /\ IF ForCurrentPair(c, Index)
       THEN /\ Syncing' = Syncing \ {c.Path}
            /\ Diffs' = IF ShouldPatch(c)
                        THEN [Diffs EXCEPT ![c.Index + 1] = PatchList(@, c)]
                        ELSE Diffs
       ELSE UNCHANGED <<Syncing, Diffs>>
    /\ fileCmds' = fileCmds \ {c}
    /\ lastMsg' = syncDoneMsg(c)
    /\ UNCHANGED <<status, Pairs, Index, Loading, srcFS, dstFS, startCmds,
                   diffCmds, nEvents, call>>

\* case "q": tea.Quit ends the program, and its goroutines with it
KeyQ ==
    /\ Running
    /\ status' = "quit"
    /\ lastMsg' = KeyMsg("q")
    /\ startCmds' = {}
    /\ fileCmds' = {}
    /\ diffCmds' = {}
    /\ UNCHANGED <<modelVars, fsVars, nEvents, call>>

\* a wrap test against len(m.Pairs) instead of len(m.Pairs)-1
NextIndexWrapLate(index, n) == IF index < n THEN index + 1 ELSE 0

\* case "tab"
NextIndex(index, n) == IF index < n - 1 THEN index + 1 ELSE 0

\* a pair switch that also forgets the repairs in flight
KeyTabClearing ==
    /\ Running
    /\ Index' = NextIndex(Index, Len(Pairs))
    /\ Syncing' = {}
    /\ lastMsg' = KeyMsg("tab")
    /\ UNCHANGED <<status, Pairs, Diffs, Loading, fsVars, cmdVars, nEvents, call>>

KeyTab ==
    /\ Running
    /\ Index' = NextIndex(Index, Len(Pairs))
    /\ lastMsg' = KeyMsg("tab")
    /\ UNCHANGED <<status, Pairs, Diffs, Loading, Syncing, fsVars, cmdVars,
                   nEvents, call>>

\* a recompute request that blanks the lists while it waits
KeyRBlanking ==
    /\ Running
    /\ nEvents < MaxEvents
    /\ nEvents' = nEvents + 1
    /\ Loading' = TRUE
    /\ Diffs' = [i \in 1..Len(Diffs) |-> << >>]
    /\ LET r == CHOOSE r \in 1..(MaxEvents + 1) : \A c \in diffCmds : c.rid # r
       IN  diffCmds' = diffCmds \cup
               {[rid |-> r, pc |-> "run", diffs |-> << >>, failed |-> {}]}
    /\ lastMsg' = KeyMsg("r")
    /\ UNCHANGED <<status, Pairs, Index, Syncing, fsVars, startCmds, fileCmds, call>>

\* case "r"
KeyR ==
    /\ Running
    /\ nEvents < MaxEvents
    /\ nEvents' = nEvents + 1
    /\ Loading' = TRUE
    /\ LET r == CHOOSE r \in 1..(MaxEvents + 1) : \A c \in diffCmds : c.rid # r
       IN  diffCmds' = diffCmds \cup
               {[rid |-> r, pc |-> "run", diffs |-> << >>, failed |-> {}]}
    /\ lastMsg' = KeyMsg("r")
    /\ UNCHANGED <<status, Pairs, Index, Diffs, Syncing, fsVars, startCmds,
                   fileCmds, call>>

\* a selection of every record that is not a match
NeedsSyncUnlessMatch(d) == d.Status # Match

\* the records a sync request selects
NeedsSync(d) == d.Status = MissingDestination \/ d.Status = Mismatch

Selected(list) == {list[i].Path : i \in {k \in 1..Len(list) : NeedsSync(list[k])}}

\* a sync request that marks the selected paths in flight at once
KeySMarking ==
    /\ Running
    /\ nEvents < MaxEvents
    /\ nEvents' = nEvents + 1
    /\ lastMsg' = KeyMsg("s")
    /\ IF Index >= Len(Pairs)
       THEN /\ status' = "panic"
            /\ startCmds' = {}
            /\ fileCmds' = {}
            /\ diffCmds' = {}
            /\ UNCHANGED Syncing
       ELSE LET sel == Selected(Diffs[Index + 1])
                rid == FreshRid
            IN  /\ Cardinality(fileCmds) + Cardinality(sel) <= MaxInFlight
                /\ Cardinality(startCmds) + Cardinality(sel) <= MaxInFlight
                /\ Syncing' = Syncing \cup sel
                /\ startCmds' = startCmds \cup
                     {[rid |-> rid, Index |-> Index, Path |-> p] : p \in sel}
                /\ fileCmds' = fileCmds \cup
                     {[rid |-> rid, Index |-> Index, Path |-> p, pc |-> "run",
                       Err |-> FALSE, SrcHash |-> NoHash] : p \in sel}
                /\ UNCHANGED <<status, diffCmds>>
    /\ UNCHANGED <<Pairs, Index, Diffs, Loading, fsVars, call>>

\* case "s": m.Pairs[idx] panics when no pair is configured
KeyS ==
    /\ Running
    /\ nEvents < MaxEvents
    /\ nEvents' = nEvents + 1
    /\ lastMsg' = KeyMsg("s")
    /\ IF Index >= Len(Pairs)
       THEN /\ status' = "panic"
            /\ startCmds' = {}
            /\ fileCmds' = {}
            /\ diffCmds' = {}
       ELSE LET sel == Selected(Diffs[Index + 1])
                rid == FreshRid
            IN  /\ Cardinality(fileCmds) + Cardinality(sel) <= MaxInFlight
                /\ Cardinality(startCmds) + Cardinality(sel) <= MaxInFlight
                /\ startCmds' = startCmds \cup
                     {[rid |-> rid, Index |-> Index, Path |-> p] : p \in sel}
                /\ fileCmds' = fileCmds \cup
                     {[rid |-> rid, Index |-> Index, Path |-> p, pc |-> "run",
                       Err |-> FALSE, SrcHash |-> NoHash] : p \in sel}
                /\ UNCHANGED <<status, diffCmds>>
    /\ UNCHANGED <<modelVars, fsVars, call>>

(***************************************************************************)
(* The commands, each run on its own goroutine by the runtime: tea.Batch   *)
(* gives no order among them.  A syncStartCmd only returns its message, so *)
(* its one step is UpdateSyncStart.                                        *)
(***************************************************************************)
\* a repair whose failure takes the other repairs of its request with it
RunSyncFileAbortBatch(c) ==
    /\ Running
    /\ c \in fileCmds /\ c.pc = "run"
    /\ LET i == c.Index + 1 IN
       \E err \in BOOLEAN, listErr \in BOOLEAN :
         /\ srcFS[i][c.Path] = NoFile => err
         /\ dstFS' = IF err THEN dstFS
                     ELSE [dstFS EXCEPT ![i][c.Path] = srcFS[i][c.Path]]
         /\ LET src  == IF listErr THEN << >> ELSE getFileHashes(srcFS[i])
                rest == IF err THEN {f \in fileCmds : f.rid # c.rid} ELSE fileCmds \ {c}
            IN  fileCmds' = rest \cup
                    {[c EXCEPT !.pc = "send", !.Err = err,
                               !.SrcHash = FreshHash(src, c.Path)]}
    /\ lastMsg' = NoMsg
    /\ UNCHANGED <<status, modelVars, srcFS, startCmds, diffCmds, nEvents, call>>

\* the body of syncFileCmd: rsync one file, then re-read the source hashes.
\* rsync fails when the source file is gone, and may fail otherwise; the
\* error of getFileHashes is dropped and leaves the hash empty.
RunSyncFile(c) ==
    /\ Running
    /\ c \in fileCmds /\ c.pc = "run"
    /\ LET i == c.Index + 1 IN
       \E err \in BOOLEAN, listErr \in BOOLEAN :
         /\ srcFS[i][c.Path] = NoFile => err
         /\ dstFS' = IF err THEN dstFS
                     ELSE [dstFS EXCEPT ![i][c.Path] = srcFS[i][c.Path]]
         /\ LET src == IF listErr THEN << >> ELSE getFileHashes(srcFS[i])
            IN  fileCmds' = (fileCmds \ {c}) \cup
                    {[c EXCEPT !.pc = "send", !.Err = err,
                               !.SrcHash = FreshHash(src, c.Path)]}
    /\ lastMsg' = NoMsg
    /\ UNCHANGED <<status, modelVars, srcFS, startCmds, diffCmds, nEvents, call>>

\* the body of computeDiffsCmd; failed records, for the properties, the pairs
\* whose inventories failed
RunComputeDiffs(c) ==
    /\ Running
    /\ c \in diffCmds /\ c.pc = "run"
    /\ \E srcErr \in SUBSET (1..Len(Pairs)), dstErr \in SUBSET (1..Len(Pairs)) :
         diffCmds' = (diffCmds \ {c}) \cup
             {[c EXCEPT !.pc = "send",
                        !.diffs = computeAllDiffs(Pairs, srcFS, dstFS, srcErr, dstErr),
                        !.failed = srcErr \cup dstErr]}
    /\ lastMsg' = NoMsg
    /\ UNCHANGED <<status, modelVars, fsVars, startCmds, fileCmds, nEvents, call>>

(***************************************************************************)
(* The environment: the content of a source file changes under the         *)
(* program (the reason syncFileCmd re-reads the hash).                     *)
(***************************************************************************)
OtherHash(h) == CHOOSE g \in Hashes : g # h

EnvModifySource ==
    /\ Running
    /\ nEvents < MaxEvents
    /\ \E i \in 1..Len(Pairs), p \in TreePaths :
         /\ srcFS[i][p] # NoFile
         /\ srcFS' = [srcFS EXCEPT ![i][p] = OtherHash(@)]
    /\ nEvents' = nEvents + 1
    /\ lastMsg' = NoMsg
    /\ UNCHANGED <<status, modelVars, dstFS, cmdVars, call>>

Next ==
    \/ \E c \in diffCmds : UpdateDiffs(c)
    \/ \E c \in startCmds : UpdateSyncStart(c)
    \/ \E c \in fileCmds : UpdateSyncDone(c)
    \/ KeyQ
    \/ KeyTab
    \/ KeyR
    \/ KeyS
    \/ \E c \in fileCmds : RunSyncFile(c)
    \/ \E c \in diffCmds : RunComputeDiffs(c)
    \/ EnvModifySource

Spec == Init /\ [][Next]_vars

(***************************************************************************)
(* SpecFair: the session whose pair switches all come before the first     *)
(* request, under the scheduling of the runtime: a command that was issued *)
(* runs to its end on its goroutine, and the event loop processes every    *)
(* message sent to it.  The conditions are stated for the repairs: every   *)
(* rsync ends, and its start and done messages are processed.  Key presses *)
(* are under no obligation, and the in-flight set does not depend on the   *)
(* recomputations.                                                         *)
(***************************************************************************)
KeyTabBeforeRequests ==
    /\ nEvents = 0
    /\ KeyTab

NextFair ==
    \/ \E c \in diffCmds : UpdateDiffs(c)
    \/ \E c \in startCmds : UpdateSyncStart(c)
    \/ \E c \in fileCmds : UpdateSyncDone(c)
    \/ KeyQ
    \/ KeyTabBeforeRequests
    \/ KeyR
    \/ KeyS
    \/ \E c \in fileCmds : RunSyncFile(c)
    \/ \E c \in diffCmds : RunComputeDiffs(c)
    \/ EnvModifySource

Fairness ==
    /\ WF_vars(\E c \in fileCmds : RunSyncFile(c))
    /\ WF_vars(\E c \in startCmds : UpdateSyncStart(c))
    /\ WF_vars(\E c \in fileCmds : UpdateSyncDone(c))

SpecFair == Init /\ [][NextFair]_vars /\ Fairness

(***************************************************************************)
(* SpecDiff: ComputeDiff applied to inventories with unique paths.         *)
(***************************************************************************)
UniquePaths(list) ==
    \A i, j \in 1..Len(list) : i # j => list[i].Path # list[j].Path

Inventories ==
    {list \in UNION {[1..n -> FileHash] : n \in 0..MaxInv} : UniquePaths(list)}

InitDiff ==
    /\ status = "running"
    /\ Pairs = << >>
    /\ Index = 0
    /\ Diffs = << >>
    /\ Loading = FALSE
    /\ Syncing = {}
    /\ srcFS = << >>
    /\ dstFS = << >>
    /\ startCmds = {}
    /\ fileCmds = {}
    /\ diffCmds = {}
    /\ lastMsg = NoMsg
    /\ nEvents = 0
    /\ call \in [src : Inventories, dst : Inventories, out : {<< >>}, done : {FALSE}]

CallComputeDiff ==
    /\ ~call.done
    /\ call' = [call EXCEPT !.out = ComputeDiff(call.src, call.dst), !.done = TRUE]
    /\ UNCHANGED <<status, modelVars, fsVars, cmdVars, lastMsg, nEvents>>

NextDiff == CallComputeDiff

SpecDiff == InitDiff /\ [][NextDiff]_vars

(***************************************************************************)
(* Properties of the diff engine (SpecDiff).                               *)
(***************************************************************************)
PathsOf(list) == {list[i].Path : i \in 1..Len(list)}

\* lexicographic order on paths, by first difference
RECURSIVE PathBefore(_, _)
PathBefore(s, t) ==
    IF t = << >> THEN FALSE
    ELSE IF s = << >> THEN TRUE
    ELSE IF Head(s) # Head(t) THEN Head(s) < Head(t)
    ELSE PathBefore(Tail(s), Tail(t))

\* the hash an inventory gives a path
HashIn(list, path) == (CHOOSE fh \in {list[i] : i \in 1..Len(list)} : fh.Path = path).Hash

\* C1: ComputeDiff(A, B) holds exactly one record per path of A or B, no
\* other path, in strictly ascending lexicographic order of path.
C1_OneRecordPerPathSorted ==
    call.done =>
        /\ PathsOf(call.out) = PathsOf(call.src) \cup PathsOf(call.dst)
        /\ Len(call.out) = Cardinality(PathsOf(call.src) \cup PathsOf(call.dst))
        /\ \A i \in 1..(Len(call.out) - 1) :
               PathBefore(call.out[i].Path, call.out[i + 1].Path)

\* C1 witness: overlapping inventories, given out of order, three records out
C1_Witness ==
    /\ call.done
    /\ Len(call.out) = 3
    /\ PathsOf(call.src) \cap PathsOf(call.dst) # {}
    /\ PathsOf(call.src) # PathsOf(call.dst)
    /\ Len(call.src) = 2 /\ PathBefore(call.src[2].Path, call.src[1].Path)
    /\ \E i \in 1..2 : Len(call.out[i].Path) > Len(call.out[i + 1].Path)

\* C2: every record's status is decided by presence and equality of the
\* hashes (MissingSource iff the path is not in A, MissingDestination iff it
\* is not in B, Mismatch iff in both with unequal hashes, Match iff in both
\* with equal hashes), and its hashes are those of A and B, empty when absent.
C2_StatusByPresenceAndEquality ==
    call.done =>
        \A i \in 1..Len(call.out) :
            LET d   == call.out[i]
                inA == d.Path \in PathsOf(call.src)
                inB == d.Path \in PathsOf(call.dst)
            IN  /\ d.Status = MissingSource <=> ~inA
                /\ d.Status = MissingDestination <=> ~inB
                /\ d.Status = Mismatch <=>
                       inA /\ inB /\ HashIn(call.src, d.Path) # HashIn(call.dst, d.Path)
                /\ d.Status = Match <=>
                       inA /\ inB /\ HashIn(call.src, d.Path) = HashIn(call.dst, d.Path)
                /\ d.SrcHash = IF inA THEN HashIn(call.src, d.Path) ELSE ""
                /\ d.DstHash = IF inB THEN HashIn(call.dst, d.Path) ELSE ""

\* C2 witness: a result with a missing source, a missing destination and a
\* mismatch
C2_Witness ==
    /\ call.done
    /\ \E i, j, k \in 1..Len(call.out) :
         /\ call.out[i].Status = MissingSource /\ call.out[i].SrcHash = ""
         /\ call.out[j].Status = MissingDestination /\ call.out[j].DstHash = ""
         /\ call.out[k].Status = Mismatch

\* the entries of a list with unique paths, put in the order of their paths:
\* the one list that all reorderings of a list share
InPathOrder(list) ==
    LET paths == SortStrings(PathsOf(list))
    IN  [i \in 1..Len(paths) |->
            CHOOSE fh \in {list[k] : k \in 1..Len(list)} : fh.Path = paths[i]]

\* C12: ComputeDiff is order-independent and deterministic: a call gives the
\* output of the call on the same entries in path order, and of a second
\* call on the same lists.  Every reordering of a list with unique paths is
\* itself an input of SpecDiff and has the same entries in path order, so
\* any permutation of the source list and any permutation of the
\* destination list give the identical output.
C12_OrderIndependent ==
    call.done =>
        /\ call.out = ComputeDiff(InPathOrder(call.src), InPathOrder(call.dst))
        /\ call.out = ComputeDiff(call.src, call.dst)

\* C12 witness: a call whose lists are both out of order, three paths each
C12_Witness ==
    /\ call.done
    /\ Len(call.src) = 3 /\ Len(call.dst) = 3
    /\ PathBefore(call.src[3].Path, call.src[1].Path)
    /\ PathBefore(call.dst[2].Path, call.dst[1].Path)
    /\ call.src[1].Path # call.dst[1].Path
    /\ Len(call.out) = 4

\* C13: ComputeDiff(A, A) holds a Match record for every path of A and no
\* record with another status.
C13_SelfDiffAllMatch ==
    (call.done /\ call.src = call.dst) =>
        /\ PathsOf(call.out) = PathsOf(call.src)
        /\ \A i \in 1..Len(call.out) : call.out[i].Status = Match

\* C13 witness: an inventory of three files, out of order, diffed with itself
C13_Witness ==
    /\ call.done
    /\ call.src = call.dst
    /\ Len(call.src) = 3
    /\ PathBefore(call.src[2].Path, call.src[1].Path)
    /\ Len(call.out) = 3

(***************************************************************************)
(* Properties of the session (Spec).  lastMsg is the message the step      *)
(* into the state handed to Update, so a state where lastMsg is a sync     *)
(* message is the state right after Update handled it.                     *)
(***************************************************************************)
\* the diff list of the selected pair
CurrentList == IF Index < Len(Diffs) THEN Diffs[Index + 1] ELSE << >>

RecordsAt(list, path) == {list[i] : i \in {k \in 1..Len(list) : list[k].Path = path}}

DoneHandled == lastMsg.kind = "syncDoneMsg"
StartHandled == lastMsg.kind = "syncStartMsg"

\* C3: after a sync-done event with no error for the current pair is
\* processed, the path's record has status Match and a destination hash
\* equal to its source hash, and the path is not in the in-flight set.
C3_SuccessfulDoneLeavesMatch ==
    (DoneHandled /\ ~lastMsg.Err /\ lastMsg.Index = Index) =>
        /\ lastMsg.Path \notin Syncing
        /\ \A d \in RecordsAt(CurrentList, lastMsg.Path) :
               d.Status = Match /\ d.DstHash = d.SrcHash

\* the invariant of a DiffRecord
WellFormed(d) ==
    /\ d.Status = MissingSource <=> d.SrcHash = ""
    /\ d.Status = MissingDestination <=> d.DstHash = ""
    /\ d.Status = Mismatch <=> (d.SrcHash # "" /\ d.DstHash # "" /\ d.SrcHash # d.DstHash)
    /\ d.Status = Match <=> (d.SrcHash # "" /\ d.DstHash # "" /\ d.SrcHash = d.DstHash)

\* C4: the DiffRecord invariant holds for every record of every stored
\* diff list in every reachable state of the session.
C4_RecordInvariantEverywhere ==
    \A i \in 1..Len(Diffs) : \A k \in 1..Len(Diffs[i]) : WellFormed(Diffs[i][k])

\* C5: a sync-done event with an error, for the current pair, leaves every
\* record unchanged; it only removes the path from the in-flight set.
C5_FailedDoneOnlyClearsInFlight ==
    [][(lastMsg'.kind = "syncDoneMsg" /\ lastMsg'.Err /\ lastMsg'.Index = Index) =>
          /\ Diffs' = Diffs
          /\ Syncing' = Syncing \ {lastMsg'.Path}
          /\ UNCHANGED <<Pairs, Index, Loading>>]_vars

\* C5 witness: a failed done event was handled for a path of the current
\* pair that was marked in flight; its record still needs the repair
C5_Witness ==
    /\ DoneHandled /\ lastMsg.Err /\ lastMsg.Index = Index
    /\ \E d \in RecordsAt(CurrentList, lastMsg.Path) : d.Status = Mismatch
    /\ lastMsg.Path \notin Syncing
    /\ \A c \in startCmds : c.rid # lastMsg.rid

\* C6: a sync-start or sync-done event whose pair index is not the current
\* index leaves the session unchanged: no diff list and not the in-flight set.
C6_OtherPairEventIgnored ==
    [][((lastMsg'.kind = "syncStartMsg" \/ lastMsg'.kind = "syncDoneMsg")
            /\ lastMsg'.Index # Index) =>
          UNCHANGED <<Pairs, Index, Diffs, Loading, Syncing>>]_vars

\* C6 witness: a successful done event of another pair was handled, and the
\* record it names still needs the repair
C6_Witness ==
    /\ DoneHandled /\ ~lastMsg.Err /\ lastMsg.Index # Index
    /\ \E d \in RecordsAt(Diffs[lastMsg.Index + 1], lastMsg.Path) : d.Status # Match

\* C7: the in-flight set holds a path once its start event is processed and
\* no longer holds it once its completion event is processed, whatever the
\* outcome and whatever pair switches came in between.
C7_InFlightFollowsStartAndDone ==
    /\ StartHandled => lastMsg.Path \in Syncing
    /\ DoneHandled => lastMsg.Path \notin Syncing

\* the paths of pair idx with a repair issued and its completion not processed
Outstanding(idx) == {c.Path : c \in {f \in fileCmds : f.Index = idx}}

\* those of them whose start event has been processed
StartedOutstanding(idx) ==
    {c.Path : c \in {f \in fileCmds :
                        /\ f.Index = idx
                        /\ \A st \in startCmds : st.rid # f.rid \/ st.Path # f.Path}}

\* C8: the in-flight set is the set of paths with a repair outstanding for
\* the selected pair: it holds no other path, and it omits none whose start
\* event has been processed.
C8_InFlightIsOutstanding ==
    Running =>
        /\ Syncing \subseteq Outstanding(Index)
        /\ StartedOutstanding(Index) \subseteq Syncing

\* C9: the session processes a path's sync-start event before that path's
\* sync-done event.
C9_StartProcessedBeforeDone ==
    DoneHandled =>
        \A st \in startCmds :
            ~(st.rid = lastMsg.rid /\ st.Path = lastMsg.Path /\ st.Index = lastMsg.Index)

\* the paths of the selected pair's records that differ and have a source
NeedRepair ==
    {d.Path : d \in {e \in {CurrentList[i] : i \in 1..Len(CurrentList)} :
                        e.Status \notin {Match, MissingSource}}}

\* C10: a sync request issues one start event and one repair action for
\* each record of the current pair with status MissingDestination or
\* Mismatch, and none for any other record or pair.
C10_SyncSelectsDiffering ==
    [][(lastMsg'.kind = "key" /\ lastMsg'.key = "s" /\ status' = "running") =>
          /\ startCmds \subseteq startCmds' /\ fileCmds \subseteq fileCmds'
          /\ {<<c.Index, c.Path>> : c \in startCmds' \ startCmds} =
                 {<<Index, p>> : p \in NeedRepair}
          /\ {<<c.Index, c.Path>> : c \in fileCmds' \ fileCmds} =
                 {<<Index, p>> : p \in NeedRepair}
          /\ Cardinality(startCmds' \ startCmds) = Cardinality(NeedRepair)
          /\ Cardinality(fileCmds' \ fileCmds) = Cardinality(NeedRepair)]_vars

\* C10 witness: a sync request on a list with a mismatch and a missing
\* source issued the repair of the mismatch alone
C10_Witness ==
    /\ lastMsg.kind = "key" /\ lastMsg.key = "s"
    /\ \E d \in {CurrentList[i] : i \in 1..Len(CurrentList)} : d.Status = MissingSource
    /\ \E c \in fileCmds : c.Index = Index /\ c.pc = "run"
    /\ Cardinality(fileCmds) = 1

KeyHandled(k) == lastMsg.kind = "key" /\ lastMsg.key = k

\* the lists of d have the shape of the lists of e: as many lists, and in
\* each the same paths at the same places
SameShape(d, e) ==
    /\ Len(d) = Len(e)
    /\ \A i \in 1..Len(e) :
          /\ Len(d[i]) = Len(e[i])
          /\ \A k \in 1..Len(e[i]) : d[i][k].Path = e[i][k].Path

\* C16: a recompute request sets the loading flag, issues a recomputation
\* and leaves every diff list, the current index and the in-flight set
\* unchanged; while a recomputation is outstanding no step but the handling
\* of its completion changes the lists, except that the handling of a
\* sync-done event patches records in place: no list is blanked.
C16_RecomputeKeepsLists ==
    /\ [][(lastMsg'.kind = "key" /\ lastMsg'.key = "r") =>
            /\ Loading'
            /\ UNCHANGED <<Pairs, Index, Diffs, Syncing>>
            /\ diffCmds \subseteq diffCmds'
            /\ \E c \in diffCmds' \ diffCmds : c.pc = "run"]_vars
    /\ [][(diffCmds # {} /\ lastMsg'.kind # "diffsMsg") =>
            /\ SameShape(Diffs', Diffs)
            /\ lastMsg'.kind # "syncDoneMsg" => Diffs' = Diffs]_vars

\* C16 witness: a recompute request was handled while a repair of the
\* selected pair was in flight; the lists are still there
C16_Witness ==
    /\ KeyHandled("r")
    /\ Loading
    /\ Syncing # {}
    /\ \E d \in {CurrentList[i] : i \in 1..Len(CurrentList)} : d.Status = Mismatch
    /\ \E c \in diffCmds : c.pc = "run"

\* C17: a recomputation-complete event replaces the diff lists of all pairs
\* with the delivered lists, clears the loading flag and leaves the current
\* index and the in-flight set unchanged; the delivered result holds one
\* list per pair, so there are always as many stored lists as pairs.
C17_CompleteReplacesLists ==
    /\ [][lastMsg'.kind = "diffsMsg" =>
            /\ Diffs' = lastMsg'.diffs
            /\ ~Loading'
            /\ UNCHANGED <<Pairs, Index, Syncing>>]_vars
    /\ [](Len(Diffs) = Len(Pairs))
    /\ [](\A c \in diffCmds : c.pc = "send" => Len(c.diffs) = Len(Pairs))

\* C17 witness: a completion was handled with a repair in flight and
\* another pair selected, and it changed a list to one without records
C17_Witness ==
    /\ lastMsg.kind = "diffsMsg"
    /\ ~Loading
    /\ Syncing # {}
    /\ Index = 1
    /\ Diffs[1] = << >>
    /\ Diffs[2] # << >>

\* C18: a pair-switch event is accepted in every state of the running
\* session and changes only the current index: the loading flag, the
\* in-flight set and every diff list are unchanged.
C18_TabChangesOnlyIndex ==
    /\ [](Running => ENABLED KeyTab)
    /\ [][(lastMsg'.kind = "key" /\ lastMsg'.key = "tab") =>
            UNCHANGED <<Pairs, Diffs, Loading, Syncing>>]_vars

\* C18 witness: a pair switch was handled while the session was loading
\* and a repair was in flight, and it moved the index
C18_Witness ==
    /\ KeyHandled("tab")
    /\ Loading
    /\ Syncing # {}
    /\ fileCmds # {}
    /\ Index = 1

\* C19: handling a sync request leaves the loading flag, the current
\* index, the in-flight set and all diff lists unchanged, and every repair
\* action and start event it issues carries the index that is current.
C19_SyncRequestChangesNothing ==
    [][(lastMsg'.kind = "key" /\ lastMsg'.key = "s") =>
          /\ UNCHANGED <<Pairs, Index, Diffs, Loading, Syncing>>
          /\ \A c \in (startCmds' \ startCmds) \cup (fileCmds' \ fileCmds) :
                 c.Index = Index]_vars

\* C19 witness: a sync request was handled for the second pair while the
\* session was loading, and issued two repairs
C19_Witness ==
    /\ KeyHandled("s")
    /\ Index = 1
    /\ Loading
    /\ Cardinality({c \in fileCmds : c.Index = 1 /\ c.pc = "run"}) = 2
    /\ Syncing = {}

\* C20: a recomputation gives a pair whose source or destination inventory
\* failed an empty list and every other pair, at its own position, the
\* ComputeDiff of its own inventories; the session that handles the result
\* is running as before, with one list per pair.
C20_FailureIsPerPair ==
    /\ [][\A c \in diffCmds' \ diffCmds : c.pc = "send" =>
            /\ Len(c.diffs) = Len(Pairs)
            /\ \A i \in 1..Len(Pairs) :
                  c.diffs[i] = IF i \in c.failed THEN << >>
                               ELSE ComputeDiff(ListLocal(srcFS[i]),
                                                ListLocal(dstFS[i]))]_vars
    /\ [](lastMsg.kind = "diffsMsg" =>
            /\ Running
            /\ Len(Diffs) = Len(Pairs)
            /\ ENABLED KeyTab)

\* C20 witness: the result of a recomputation in which the inventories of
\* the first of two pairs failed was handled: no list for the first pair,
\* the list of the second
C20_Witness ==
    /\ lastMsg.kind = "diffsMsg"
    /\ Len(Pairs) = 2
    /\ Diffs[1] = << >>
    /\ Diffs[2] = ComputeDiff(ListLocal(srcFS[2]), ListLocal(dstFS[2]))
    /\ Len(Diffs[2]) = 2

\* the same repair: the command of one selected path of one sync request
SameRepair(c, d) == c.rid = d.rid /\ c.Path = d.Path /\ c.Index = d.Index

\* C21: every repair of a sync request ends in exactly one done event that
\* carries its path and pair index, whatever the outcome of its own or of
\* another repair: a step loses or alters no repair but the one it runs or
\* whose done event it hands to Update, a repair that runs changes only its
\* own file of the destination, and a successful done event of the current
\* pair leaves its record Match whatever the other repairs did.
C21_EachRepairReportsOnce ==
    /\ [](\A c, d \in fileCmds : SameRepair(c, d) => c = d)
    /\ [][Running' =>
            \A c \in fileCmds :
                \/ c \in fileCmds'
                \/ /\ c.pc = "run"
                   /\ \E d \in fileCmds' :
                        /\ SameRepair(c, d) /\ d.pc = "send"
                        /\ fileCmds' \ {d} = fileCmds \ {c}
                   /\ \A i \in 1..Len(Pairs), p \in TreePaths :
                        (i # c.Index + 1 \/ p # c.Path) => dstFS'[i][p] = dstFS[i][p]
                   /\ lastMsg' = NoMsg
                \/ /\ c.pc = "send"
                   /\ lastMsg' = syncDoneMsg(c)
                   /\ fileCmds' = fileCmds \ {c}]_vars
    /\ [][(lastMsg'.kind = "syncDoneMsg" /\ ~lastMsg'.Err /\ lastMsg'.Index = Index) =>
            \A d \in RecordsAt(Diffs'[Index + 1], lastMsg'.Path) : d.Status = Match]_vars

\* C21 witness: of the two repairs of one sync request the first failed
\* and its done event left the record a Mismatch; the done event of the
\* second was handled all the same and patched its own record
C21_Witness ==
    /\ DoneHandled /\ ~lastMsg.Err /\ lastMsg.Index = Index
    /\ nEvents = 1
    /\ fileCmds = {}
    /\ \E d \in RecordsAt(CurrentList, lastMsg.Path) : d.Status = Match
    /\ \E d \in {CurrentList[i] : i \in 1..Len(CurrentList)} :
          d.Path # lastMsg.Path /\ d.Status = Mismatch

\* C22 as stated: after a failed sync-done event for a path of the current
\* pair, the next sync request for the pair selects the path again: its
\* record has status MissingDestination or Mismatch.
C22_FailedDoneIsSelectedAgain ==
    (DoneHandled /\ lastMsg.Err /\ lastMsg.Index = Index) =>
        lastMsg.Path \in Selected(CurrentList)

\* C22, amended: a failed sync-done event for a path of the current pair
\* leaves the path's record as it was, so a path that a sync request would
\* select before the event is still selected after it; a path a sync
\* request would select stays so through every step but the handling of a
\* recomputation result or of a successful done event for that path; the
\* next sync request issues a repair for every path it would select; and
\* only a sync request issues repairs.
C22_FailedRepairRetriedOnRequest ==
    /\ [][(lastMsg'.kind = "syncDoneMsg" /\ lastMsg'.Err /\ lastMsg'.Index = Index) =>
            /\ RecordsAt(Diffs'[Index + 1], lastMsg'.Path)
                   = RecordsAt(Diffs[Index + 1], lastMsg'.Path)
            /\ lastMsg'.Path \in Selected(Diffs[Index + 1]) =>
                   lastMsg'.Path \in Selected(Diffs'[Index + 1])]_vars
    /\ [][\A i \in 1..Len(Diffs) : \A p \in Selected(Diffs[i]) :
            \/ p \in Selected(Diffs'[i])
            \/ lastMsg'.kind = "diffsMsg"
            \/ /\ lastMsg'.kind = "syncDoneMsg" /\ ~lastMsg'.Err
               /\ lastMsg'.Path = p /\ lastMsg'.Index = i - 1]_vars
    /\ [][(lastMsg'.kind = "key" /\ lastMsg'.key = "s" /\ Running') =>
            \A p \in Selected(Diffs[Index + 1]) :
                \E c \in fileCmds' \ fileCmds :
                    c.Path = p /\ c.Index = Index /\ c.pc = "run"]_vars
    /\ [][(\E c \in fileCmds' : c.pc = "run" /\ c \notin fileCmds) =>
            (lastMsg'.kind = "key" /\ lastMsg'.key = "s")]_vars

\* C22 witness: one pair whose two files both differed; a first sync
\* request repaired the second and failed on the first, and the second
\* sync request has just issued the repair of the first again, alone
C22_Witness ==
    /\ KeyHandled("s") /\ nEvents = 2 /\ Len(Pairs) = 1
    /\ srcFS[1] = Tree("h1", "h1") /\ dstFS[1] = Tree("h2", "h1")
    /\ \E c \in fileCmds : fileCmds = {c} /\ c.pc = "run" /\ c.Path = PathA
    /\ \E d \in RecordsAt(CurrentList, PathB) : d.Status = Match
    /\ \E d \in RecordsAt(CurrentList, PathA) : d.Status = Mismatch

\* what case syncDoneMsg makes of the lists and the in-flight set, for the
\* selected index
AfterDone(m, index, msg) ==
    IF ForCurrentPair(msg, index)
    THEN [Diffs   |-> IF ShouldPatch(msg)
                      THEN [m.Diffs EXCEPT ![msg.Index + 1] = PatchList(@, msg)]
                      ELSE m.Diffs,
          Syncing |-> m.Syncing \ {msg.Path}]
    ELSE m

\* C23: a sync-done event touches only the record of its own path in the
\* list of its own pair, and two done events for different paths of the
\* current pair give the same session whichever is processed first.
C23_DonePatchesCommute ==
    /\ [][lastMsg'.kind = "syncDoneMsg" =>
            /\ [Diffs |-> Diffs', Syncing |-> Syncing']
                   = AfterDone([Diffs |-> Diffs, Syncing |-> Syncing], Index, lastMsg')
            /\ UNCHANGED <<Pairs, Index, Loading>>
            /\ Len(Diffs') = Len(Diffs)
            /\ \A i \in 1..Len(Diffs) :
                  /\ Len(Diffs'[i]) = Len(Diffs[i])
                  /\ \A k \in 1..Len(Diffs[i]) :
                        Diffs'[i][k] # Diffs[i][k] =>
                            /\ i = lastMsg'.Index + 1
                            /\ Diffs[i][k].Path = lastMsg'.Path]_vars
    /\ [](\A c, d \in {f \in fileCmds : f.pc = "send" /\ f.Index = Index} :
            c.Path # d.Path =>
                LET m == [Diffs |-> Diffs, Syncing |-> Syncing]
                IN  AfterDone(AfterDone(m, Index, c), Index, d)
                        = AfterDone(AfterDone(m, Index, d), Index, c))

\* C23 witness: the done events of the two repairs of one sync request,
\* both successful, have been handled; both records are patched
C23_Witness ==
    /\ DoneHandled /\ ~lastMsg.Err /\ lastMsg.Index = Index
    /\ nEvents = 1
    /\ fileCmds = {}
    /\ Syncing = {}
    /\ srcFS[Index + 1] = Tree("h1", "h1")
    /\ dstFS[Index + 1] = Tree("h1", "h1")
    /\ Len(CurrentList) = 2
    /\ \A i \in 1..2 : CurrentList[i].Status = Match /\ CurrentList[i].DstHash = "h1"

\* C24: a recomputation result that was computed before a repair completed
\* does not undo the repair: handling a recomputation result never turns a
\* record that is Match into Mismatch or MissingDestination while the file
\* of the destination equals the file of the source.
C24_StaleResultKeepsRepair ==
    [][lastMsg'.kind = "diffsMsg" =>
          \A i \in 1..Len(Diffs) : \A k \in 1..Len(Diffs[i]) :
              LET d == Diffs[i][k]
              IN  (d.Status = Match /\ dstFS[i][d.Path] = srcFS[i][d.Path]) =>
                      \A e \in RecordsAt(Diffs'[i], d.Path) :
                          e.Status \notin {Mismatch, MissingDestination}]_vars

\* C25: the loading flag is false only when no recomputation is in flight.
C25_LoadingTracksRecomputations ==
    (Running /\ ~Loading) => diffCmds = {}

\* C26: no handler indexes the pair list or the array of diff lists out of
\* range, whatever the number of pairs: the session never ends in the
\* runtime's index-out-of-range panic.
C26_NoIndexOutOfRange ==
    status # "panic"

\* C27 (SpecFair): with every repair completing and every message
\* processed, and no pair switch after a sync request, the in-flight set
\* of the running session is eventually empty for good (the requests of a
\* run are finitely many).
C27_InFlightEventuallyEmpty ==
    <>[](Running => Syncing = {})

\* strictly ascending by path: sorted, no path twice
StrictlySorted(list) ==
    \A k \in 1..(Len(list) - 1) : PathBefore(list[k].Path, list[k + 1].Path)

\* C28: every stored diff list is strictly ascending by path, and its paths
\* are those the most recent recomputation (or the initial computation)
\* delivered, in the same places: the handling of a recomputation result
\* stores the delivered lists and no other step adds, removes or moves a
\* record.
C28_ListsKeepTheirPaths ==
    /\ [](\A i \in 1..Len(Diffs) : StrictlySorted(Diffs[i]))
    /\ [][IF lastMsg'.kind = "diffsMsg" THEN Diffs' = lastMsg'.diffs
          ELSE SameShape(Diffs', Diffs)]_vars

\* C28 witness: a successful done event patched the second of two records;
\* the list still holds both paths in order
C28_Witness ==
    /\ DoneHandled /\ ~lastMsg.Err /\ lastMsg.Index = Index
    /\ lastMsg.Path = PathB
    /\ Len(CurrentList) = 2
    /\ CurrentList[1].Path = PathA /\ CurrentList[1].Status = Match
    /\ CurrentList[2].Path = PathB /\ CurrentList[2].Status = Match
    /\ CurrentList[2].DstHash = "h2"
    /\ StartHandled = FALSE /\ startCmds = {}

(***************************************************************************)
(* SpecTab: a session of up to MaxTabPairs pairs that receives only "tab". *)
(***************************************************************************)
InitTab ==
    /\ status = "running"
    /\ \E n \in 1..MaxTabPairs :
         /\ Pairs = [i \in 1..n |-> i]
         /\ srcFS = [i \in 1..n |-> InitTree(i, 1).src]
         /\ dstFS = [i \in 1..n |-> InitTree(i, 1).dst]
         /\ Diffs = computeAllDiffs(Pairs, srcFS, dstFS, {}, {})
    /\ Index = 0
    /\ Loading = FALSE
    /\ Syncing = {}
    /\ startCmds = {}
    /\ fileCmds = {}
    /\ diffCmds = {}
    /\ lastMsg = NoMsg
    /\ nEvents = 0
    /\ call = NoCall

NextTab == KeyTab

SpecTab == InitTab /\ [][NextTab]_vars

(***************************************************************************)
(* Properties of pair switching (SpecTab).                                 *)
(***************************************************************************)
TabHandled == lastMsg.kind = "key" /\ lastMsg.key = "tab"

\* the index after k pair-switch events, from index, with n pairs
RECURSIVE AfterTabs(_, _, _)
AfterTabs(index, n, k) ==
    IF k = 0 THEN index ELSE AfterTabs(NextIndex(index, n), n, k - 1)

\* C11: with N >= 1 pairs the current index is always within 0..N-1, one
\* pair-switch event takes it to (index + 1) mod N, and N pair-switch events
\* in a row take it back to where it was.  (A temporal formula: a state
\* invariant and a step property.)
C11_TabCyclesThroughPairs ==
    /\ [](Len(Pairs) >= 1 =>
            /\ Index \in 0..(Len(Pairs) - 1)
            /\ AfterTabs(Index, Len(Pairs), Len(Pairs)) = Index
            /\ \A k \in 1..(Len(Pairs) - 1) :
                   AfterTabs(Index, Len(Pairs), k) # Index)
    /\ [][(lastMsg'.kind = "key" /\ lastMsg'.key = "tab" /\ Len(Pairs) >= 1) =>
            Index' = (Index + 1) % Len(Pairs)]_vars

\* C11 witness: with three pairs or more, a pair switch wrapped to pair 0
C11_Witness ==
    /\ TabHandled
    /\ Len(Pairs) >= 3
    /\ Index = 0

(***************************************************************************)
(* The inventory producers of package diff, on text.  Strings are          *)
(* sequences of one-character strings.                                     *)
(***************************************************************************)
\* strings.TrimRight(s, c) for a single character c
RECURSIVE TrimRight(_, _)
TrimRight(s, c) ==
    IF s # << >> /\ s[Len(s)] = c THEN TrimRight(SubSeq(s, 1, Len(s) - 1), c)
    ELSE s

\* filepath.Join(dir, rel) for clean arguments
Join(dir, rel) == dir \o <<"/">> \o rel

\* filepath.Rel(dir, path) for a path below dir
Rel(dir, path) == SubSeq(path, Len(dir) + 2, Len(path))

\* the callback of filepath.WalkDir over the entries still to visit: it
\* returns the error of the first entry that fails and stops the walk
RECURSIVE WalkDir(_, _, _)
WalkDir(dir, entries, results) ==
    IF entries = << >> THEN [results |-> results, err |-> FALSE]
    ELSE LET d == Head(entries)
         IN  IF d.fails THEN [results |-> results, err |-> TRUE]
             ELSE IF d.isDir THEN WalkDir(dir, Tail(entries), results)
             ELSE WalkDir(dir, Tail(entries),
                          Append(results, [Path |-> Rel(dir, d.path), Hash |-> d.hash]))

\* ListLocal over the entries WalkDir finds under dir: nil and the error, or
\* the results
WalkListLocal(dir, entries) ==
    LET w == WalkDir(dir, entries, << >>)
    IN  IF w.err THEN [list |-> << >>, err |-> TRUE]
        ELSE [list |-> w.results, err |-> FALSE]

\* strings.SplitN(addr, ":", 2) has two parts
HasSeparator(addr) == \E i \in 1..Len(addr) : addr[i] = ":"

RECURSIVE DropSpaces(_)
DropSpaces(s) == IF s # << >> /\ Head(s) = " " THEN DropSpaces(Tail(s)) ELSE s

RECURSIVE TakeWord(_)
TakeWord(s) ==
    IF s = << >> \/ Head(s) = " " THEN << >> ELSE <<Head(s)>> \o TakeWord(Tail(s))

\* strings.Fields: the words of s, split around runs of white space
RECURSIVE Fields(_)
Fields(s) ==
    LET t == DropSpaces(s)
    IN  IF t = << >> THEN << >>
        ELSE LET w == TakeWord(t)
             IN  <<w>> \o Fields(SubSeq(t, Len(w) + 1, Len(t)))

\* strings.TrimPrefix(file, "./")
TrimPrefixDotSlash(file) ==
    IF Len(file) >= 2 /\ file[1] = "." /\ file[2] = "/"
    THEN SubSeq(file, 3, Len(file))
    ELSE file

\* the scanner loop of ListRemote over the lines of the output
RECURSIVE ScanLines(_, _)
ScanLines(lines, results) ==
    IF lines = << >> THEN results
    ELSE LET fields == Fields(Head(lines))
         IN  IF Len(fields) < 2 THEN ScanLines(Tail(lines), results)
             ELSE ScanLines(Tail(lines),
                            Append(results, [Path |-> TrimPrefixDotSlash(fields[2]),
                                             Hash |-> fields[1]]))

\* runErr: cmd.Run fails; lines: what the command wrote; scanErr: the
\* scanner stops with an error (a line beyond its buffer) after these lines
ListRemote(addr, runErr, lines, scanErr) ==
    IF ~HasSeparator(addr) THEN [list |-> << >>, err |-> TRUE]
    ELSE IF runErr THEN [list |-> << >>, err |-> TRUE]
    ELSE LET results == ScanLines(lines, << >>)
         IN  IF scanErr THEN [list |-> << >>, err |-> TRUE]
             ELSE [list |-> results, err |-> FALSE]

(***************************************************************************)
(* SpecList: ListLocal and ListRemote applied to bounded inputs.           *)
(***************************************************************************)
\* a local root, with and without a trailing separator (as TestListLocal's
\* temporary directory, and as a configured path may be written)
LocalRoots == {<<"/", "r">>, <<"/", "r", "/">>}
FileA == <<"a">>
DirS == <<"s">>
FileSB == <<"s", "/", "b">>
LocalFiles == {FileA, FileSB}
\* the nodes of a tree that may fail to be read: the root, a file, a directory
LocalNodes == {<< >>, FileA, DirS, FileSB}

\* what filepath.WalkDir visits under dir, in lexical order; an entry fails
\* when its node cannot be read
DirEntries(dir, files, hasDir, unreadable) ==
    LET entry(rel, isDir, hash) ==
            [path |-> IF rel = << >> THEN dir ELSE Join(dir, rel), isDir |-> isDir,
             hash |-> hash, fails |-> rel \in unreadable]
    IN  <<entry(<< >>, TRUE, NoHash)>>
        \o (IF files[FileA] # NoFile THEN <<entry(FileA, FALSE, files[FileA])>>
            ELSE << >>)
        \o (IF hasDir \/ files[FileSB] # NoFile THEN <<entry(DirS, TRUE, NoHash)>>
            ELSE << >>)
        \o (IF files[FileSB] # NoFile THEN <<entry(FileSB, FALSE, files[FileSB])>>
            ELSE << >>)

\* remote addresses: host:/path, the same with a trailing slash, and one
\* without the separator
RemoteAddrs == {<<"h", ":", "/", "r">>, <<"h", ":", "/", "r", "/">>, <<"h">>}
RemoteHashes == {<<"1">>, <<"2">>}
\* file names on the remote side; one holds a space
RemotePaths == {<<"a">>, <<"s", "/", "b">>, <<"a", " ", "b">>}

\* a line of the listing: a file line as md5sum prints it under find
\* ("hash  ./path") or as TestListRemote prints it ("hash path"), or a line
\* that is no file line: empty, or cut after the hash
FileLines == [kind : {"file"}, Hash : RemoteHashes, DotSlash : BOOLEAN, Path : RemotePaths]
ShortLines == [kind : {"short"}, Text : {<< >>, <<"1">>}]
RemoteLines == FileLines \cup ShortLines

\* the text of a line
LineText(l) ==
    IF l.kind = "file"
    THEN IF l.DotSlash THEN l.Hash \o <<" ", " ", ".", "/">> \o l.Path
         ELSE l.Hash \o <<" ">> \o l.Path
    ELSE l.Text

RemoteListings == UNION {[1..n -> RemoteLines] : n \in 0..MaxLines}

LocalCalls ==
    [kind : {"local"}, root : LocalRoots, files : [LocalFiles -> Hashes \cup {NoFile}],
     hasDir : BOOLEAN, unreadable : SUBSET LocalNodes,
     list : {<< >>}, err : {FALSE}, done : {FALSE}]

RemoteCalls ==
    [kind : {"remote"}, addr : RemoteAddrs, runErr : BOOLEAN, scanErr : BOOLEAN,
     lines : RemoteListings, list : {<< >>}, err : {FALSE}, done : {FALSE}]

InitList ==
    /\ status = "running"
    /\ Pairs = << >>
    /\ Index = 0
    /\ Diffs = << >>
    /\ Loading = FALSE
    /\ Syncing = {}
    /\ srcFS = << >>
    /\ dstFS = << >>
    /\ startCmds = {}
    /\ fileCmds = {}
    /\ diffCmds = {}
    /\ lastMsg = NoMsg
    /\ nEvents = 0
    /\ call \in LocalCalls \cup RemoteCalls

\* diff.ListLocal(root)
CallListLocal ==
    /\ call.kind = "local" /\ ~call.done
    /\ LET dir == TrimRight(call.root, "/")
           r   == WalkListLocal(dir, DirEntries(dir, call.files, call.hasDir,
                                                call.unreadable))
       IN  call' = [call EXCEPT !.list = r.list, !.err = r.err, !.done = TRUE]
    /\ UNCHANGED <<status, modelVars, fsVars, cmdVars, lastMsg, nEvents>>

\* diff.ListRemote(addr)
CallListRemote ==
    /\ call.kind = "remote" /\ ~call.done
    /\ LET lines == [i \in 1..Len(call.lines) |-> LineText(call.lines[i])]
           r     == ListRemote(call.addr, call.runErr, lines, call.scanErr)
       IN  call' = [call EXCEPT !.list = r.list, !.err = r.err, !.done = TRUE]
    /\ UNCHANGED <<status, modelVars, fsVars, cmdVars, lastMsg, nEvents>>

NextList ==
    \/ CallListLocal
    \/ CallListRemote

SpecList == InitList /\ [][NextList]_vars

(***************************************************************************)
(* Properties of the inventory producers (SpecList).                       *)
(***************************************************************************)
RemoteDone == call.done /\ call.kind = "remote"
LocalDone == call.done /\ call.kind = "local"

\* the records a sequence of lines stands for: one per file line, in order
RECURSIVE RecordsOfLines(_)
RecordsOfLines(lines) ==
    IF lines = << >> THEN << >>
    ELSE (IF Head(lines).kind = "file"
          THEN <<[Path |-> Head(lines).Path, Hash |-> Head(lines).Hash]>>
          ELSE << >>) \o RecordsOfLines(Tail(lines))

\* C14: ListRemote returns an error and no inventory when the address has
\* no host/path separator or the transport command fails; otherwise it
\* returns one record per file line of the listing, in order, holding the
\* line's hash and the line's path without the leading "./".
C14_RemoteRecordPerFileLine ==
    (RemoteDone /\ ~call.scanErr) =>
        IF ~HasSeparator(call.addr) \/ call.runErr
        THEN call.err /\ call.list = << >>
        ELSE ~call.err /\ call.list = RecordsOfLines(call.lines)

\* the inventory of a local tree: its files, paths relative to the root
CompleteLocal(files) ==
    (IF files[FileA] # NoFile THEN <<[Path |-> FileA, Hash |-> files[FileA]]>>
     ELSE << >>)
    \o (IF files[FileSB] # NoFile THEN <<[Path |-> FileSB, Hash |-> files[FileSB]]>>
        ELSE << >>)

\* ListLocal gives the complete inventory or an error and no inventory
LocalCompleteOrError ==
    LocalDone =>
        \/ call.err /\ call.list = << >>
        \/ ~call.err /\ call.list = CompleteLocal(call.files)

\* ListRemote gives a record for every entry of the listing or an error
\* and no inventory (an empty line is no entry)
RemoteCompleteOrError ==
    RemoteDone =>
        \/ call.err /\ call.list = << >>
        \/ ~call.err
             /\ Len(call.list) =
                    Cardinality({i \in 1..Len(call.lines) :
                                    LineText(call.lines[i]) # << >>})

\* C15: an inventory producer returns the complete inventory of the files
\* under the root, or an error and no inventory; an entry that fails or
\* cannot be parsed never leaves a shorter list without an error.
C15_CompleteInventoryOrError ==
    LocalCompleteOrError /\ RemoteCompleteOrError

====
